---------------------------- MODULE Spec2Model ----------------------------
(***************************************************************************)
(* A model of hyperliquid-withdraw-tools: the interactive menu hype_cli.py *)
(* and the two scripts unstake_hype.py and vault_withdraw.py.              *)
(*                                                                         *)
(* Text is a sequence of one-character strings, so that startswith, len,   *)
(* strip, readlines and the number parsers are computed on characters.     *)
(* An optional value (Python's None) is a sequence of length at most one:  *)
(* None is << >> and a present value v is << v >>.                         *)
(* A decimal number is [kind, neg, digs, exp]: the sign, the coefficient   *)
(* as a sequence of digits 0..9 without leading zeros, and the exponent,   *)
(* as Python's decimal module holds it.                                    *)
(***************************************************************************)
EXTENDS Integers, Sequences, FiniteSets, TLC

VARIABLES
    script,         \* the entry point that runs: hype_cli, unstake_hype, vault_withdraw
    pc,             \* the position in that entry point's code
    args,           \* what the user gave this operation: flags or prompt answers
    environ,        \* os.environ, as far as vault_withdraw.py reads it
    cfg,            \* the parsed config.json
    target,         \* the resolved validator / vault address (None until resolved)
    amount,         \* the resolved amount: wei (unstake) or the USD number (vault)
    flags,          \* [is_deposit, is_mainnet] as resolved
    private_key,    \* the resolved private key (None until resolved)
    locals,         \* the action built, its timestamp and its signature
    calls,          \* what this operation did to the outside: confirm, sign, submit
    error,          \* the error this operation ended with ("" for none)
    envFile,        \* the content of .env (None when the file is missing)
    envLog          \* one record per write of .env: the values written and the result

vars == << script, pc, args, environ, cfg, target, amount, flags, private_key,
           locals, calls, error, envFile, envLog >>

(***************************************************************************)
(* Text                                                                    *)
(***************************************************************************)
None == << >>

Some(v) == << v >>

Rep(c, n) == [i \in 1..n |-> c]

DigitChars == <<"0", "1", "2", "3", "4", "5", "6", "7", "8", "9">>

IsDigit(c) == \E i \in 1..10 : DigitChars[i] = c

DigitVal(c) == (CHOOSE i \in 1..10 : DigitChars[i] = c) - 1

AllDigits(s) == \A i \in 1..Len(s) : IsDigit(s[i])

HexChars == {"0", "1", "2", "3", "4", "5", "6", "7", "8", "9",
             "a", "b", "c", "d", "e", "f", "A", "B", "C", "D", "E", "F"}

IsSpace(c) == c \in {" ", "\n", "\t", "\r"}

\* str.startswith
StartsWith(s, p) == Len(s) >= Len(p) /\ SubSeq(s, 1, Len(p)) = p

\* The first position of c in s, 0 when there is none.
IndexOf(s, c) ==
    IF \E i \in 1..Len(s) : s[i] = c
    THEN CHOOSE i \in 1..Len(s) : s[i] = c /\ \A j \in 1..(i - 1) : s[j] # c
    ELSE 0

\* str.strip
Strip(s) ==
    LET ns == {i \in 1..Len(s) : ~IsSpace(s[i])}
    IN  IF ns = {} THEN << >>
        ELSE LET lo == CHOOSE i \in ns : \A j \in ns : i <= j
                 hi == CHOOSE i \in ns : \A j \in ns : j <= i
             IN  SubSeq(s, lo, hi)

\* str.lower on the letters the parsers look at
LowerChar(c) ==
    CASE c = "E" -> "e" [] c = "N" -> "n" [] c = "A" -> "a" [] c = "I" -> "i"
      [] c = "F" -> "f" [] c = "T" -> "t" [] c = "Y" -> "y" [] c = "R" -> "r"
      [] c = "U" -> "u" [] c = "S" -> "s" [] c = "L" -> "l" [] c = "O" -> "o"
      [] OTHER -> c

Lower(s) == [i \in 1..Len(s) |-> LowerChar(s[i])]

(***************************************************************************)
(* Decimal numbers                                                         *)
(***************************************************************************)
\* The digits of a coefficient without its leading zeros (<<0>> for zero).
RECURSIVE StripZeros(_)
StripZeros(ds) ==
    IF Len(ds) = 0 THEN <<0>>
    ELSE IF ds[1] = 0 /\ Len(ds) > 1 THEN StripZeros(Tail(ds))
    ELSE ds

IsZeroDigs(ds) == \A i \in 1..Len(ds) : ds[i] = 0

\* ds + 1 on digit sequences, with the carry.
RECURSIVE Incr(_)
Incr(ds) ==
    IF Len(ds) = 0 THEN <<1>>
    ELSE LET n == Len(ds)
         IN  IF ds[n] < 9 THEN [ds EXCEPT ![n] = ds[n] + 1]
             ELSE Append(Incr(SubSeq(ds, 1, n - 1)), 0)

\* The number a short digit string spells (the exponent of a literal).
RECURSIVE DigitsToNat(_)
DigitsToNat(s) ==
    IF Len(s) = 0 THEN 0
    ELSE 10 * DigitsToNat(SubSeq(s, 1, Len(s) - 1)) + DigitVal(s[Len(s)])

Num(neg, digs, exp) == [kind |-> "num", neg |-> neg, digs |-> digs, exp |-> exp]

Invalid == [kind |-> "invalid", neg |-> FALSE, digs |-> <<0>>, exp |-> 0]

Special(kind, neg) == [kind |-> kind, neg |-> neg, digs |-> <<0>>, exp |-> 0]

\* Whether digs, cut after its first k digits, rounds up under round-half-even.
RoundsUp(digs, k) ==
    LET n    == Len(digs)
        rest == SubSeq(digs, k + 1, n)
        odd  == k >= 1 /\ digs[k] % 2 = 1
    IN  /\ k < n
        /\ \/ rest[1] > 5
           \/ /\ rest[1] = 5
              /\ \/ ~IsZeroDigs(SubSeq(rest, 2, Len(rest)))
                 \/ odd

\* digs rounded half-even to its first k digits (k >= 0): the kept digits, plus one
\* when the dropped part asks for it.
RoundDigs(digs, k) ==
    LET kept == SubSeq(digs, 1, k)
    IN  IF RoundsUp(digs, k) THEN Incr(kept) ELSE StripZeros(kept)

\* The part of s before the first c (all of s when there is none), and the part
\* after it.
Before(s, c) == IF IndexOf(s, c) = 0 THEN s ELSE SubSeq(s, 1, IndexOf(s, c) - 1)

After(s, c) == IF IndexOf(s, c) = 0 THEN << >> ELSE SubSeq(s, IndexOf(s, c) + 1, Len(s))

IsNeg(t) == Len(t) > 0 /\ t[1] = "-"

\* t without its sign, when it has one.
Unsigned(t) == IF Len(t) > 0 /\ t[1] \in {"+", "-"} THEN Tail(t) ELSE t

\* The value of an exponent's text, sign included.
ExpVal(etxt) ==
    IF IsNeg(etxt) THEN 0 - DigitsToNat(Unsigned(etxt)) ELSE DigitsToNat(Unsigned(etxt))

\* The digits before and after the point as one coefficient.
Coef(ip, fp) ==
    [i \in 1..(Len(ip) + Len(fp)) |->
        IF i <= Len(ip) THEN DigitVal(ip[i]) ELSE DigitVal(fp[i - Len(ip)])]

\* A finite literal: digits with at most one point and at least one digit, then an
\* optional exponent, which needs at least one digit.
ParseFinite(neg, ip, fp, hasExp, etxt) ==
    IF /\ AllDigits(ip) /\ AllDigits(fp) /\ Len(ip) + Len(fp) >= 1
       /\ hasExp => (Len(Unsigned(etxt)) > 0 /\ AllDigits(Unsigned(etxt)))
    THEN Num(neg, StripZeros(Coef(ip, fp)),
             (IF hasExp THEN ExpVal(etxt) ELSE 0) - Len(fp))
    ELSE Invalid

ParseBody(neg, body) ==
    IF body = <<"n", "a", "n">> THEN Special("nan", neg)
    ELSE IF body = <<"i", "n", "f">>
            \/ body = <<"i", "n", "f", "i", "n", "i", "t", "y">>
    THEN Special("inf", neg)
    ELSE ParseFinite(neg, Before(Before(body, "e"), "."), After(Before(body, "e"), "."),
                     IndexOf(body, "e") # 0, After(body, "e"))

ParseSigned(t) == ParseBody(IsNeg(t), Unsigned(t))

\* The literal grammar that Decimal(s) and float(s) share: surrounding white space
\* dropped, an optional sign, then nan / inf / infinity in any case, or a finite
\* literal.
ParseNumber(s) == ParseSigned(Lower(Strip(s)))

\* How many digits of the literal stand after the point, once the exponent is applied.
FracDigits(d) == IF d.exp < 0 THEN 0 - d.exp ELSE 0

\* The precision of Python's default decimal context, under which the product
\* dec * HYPE_WEI_FACTOR is computed.
DecimalPrec == 28

\* Decimal._fix: a coefficient longer than the context's precision is rounded
\* half-even to that many digits; a carry out of the top digit drops one more.
\* (The exponent limits of the context are out of reach of the literals drawn here.)
DecFix(x) ==
    IF Len(x.digs) <= DecimalPrec THEN x
    ELSE LET drop == Len(x.digs) - DecimalPrec
             r    == RoundDigs(x.digs, DecimalPrec)
         IN  IF Len(r) > DecimalPrec
             THEN Num(x.neg, SubSeq(r, 1, DecimalPrec), x.exp + drop + 1)
             ELSE Num(x.neg, r, x.exp + drop)

\* Decimal.__mul__ by the int 10^p: the coefficients are multiplied, the exponents
\* added, and the result fixed to the context.
DecMulPow10(d, p) ==
    IF d.kind # "num" THEN d
    ELSE IF IsZeroDigs(d.digs) THEN Num(d.neg, <<0>>, d.exp)
    ELSE DecFix(Num(d.neg, d.digs \o Rep(0, p), d.exp))

\* The same product with nothing rounded: the number Decimal(d) * 10^p is.
ExactMulPow10(d, p) ==
    IF d.kind # "num" THEN d
    ELSE IF IsZeroDigs(d.digs) THEN Num(d.neg, <<0>>, d.exp)
    ELSE Num(d.neg, d.digs \o Rep(0, p), d.exp)

\* An integer: its sign and its digits; zero has no sign.
IntOf(neg, digs) ==
    LET ds == StripZeros(digs)
    IN  [neg |-> neg /\ ~IsZeroDigs(ds), digs |-> ds]

\* Decimal.__int__ on a finite number: the digits before the point, toward zero.
DecToInt(d) ==
    IF d.exp >= 0 THEN IntOf(d.neg, d.digs \o Rep(0, d.exp))
    ELSE IF Len(d.digs) + d.exp <= 0 THEN IntOf(FALSE, <<0>>)
    ELSE IntOf(d.neg, SubSeq(d.digs, 1, Len(d.digs) + d.exp))

\* round(d) on a finite Decimal: to the nearest integer, ties to even, exactly.
DecRound(d) ==
    IF d.exp >= 0 THEN IntOf(d.neg, d.digs \o Rep(0, d.exp))
    ELSE IF Len(d.digs) + d.exp < 0 THEN IntOf(FALSE, <<0>>)
    ELSE IntOf(d.neg, RoundDigs(d.digs, Len(d.digs) + d.exp))

\* n <= 0 on an integer
IntNonPositive(n) == n.neg \/ IsZeroDigs(n.digs)

\* x <= 0 on a float: false for nan, the sign for an infinity.
FloatNonPositive(x) ==
    CASE x.kind = "nan" -> FALSE
      [] x.kind = "inf" -> x.neg
      [] OTHER -> x.neg \/ IsZeroDigs(x.digs)

(***************************************************************************)
(* hype_to_wei, in its two copies                                          *)
(***************************************************************************)
HYPE_DECIMALS == 8

Returned(v) == [ok |-> TRUE, val |-> v, err |-> ""]

Raised(e) == [ok |-> FALSE, val |-> IntOf(FALSE, <<0>>), err |-> e]

\* if wei <= 0: raise ValueError; return wei
Positive(wei) == IF IntNonPositive(wei) THEN Raised("NonPositiveAmount") ELSE Returned(wei)

\* int(dec * 10 ** decimals), or what it raises.
ToWei(dec, decimals) ==
    CASE dec.kind = "invalid" -> Raised("InvalidOperation")
      [] dec.kind = "nan" -> Raised("ValueError")
      [] dec.kind = "inf" -> Raised("OverflowError")
      [] OTHER -> Positive(DecToInt(DecMulPow10(dec, decimals)))

\* A wrong scale factor: one decimal short.
hype_to_wei_scale7(amount_hype) == ToWei(ParseNumber(amount_hype), HYPE_DECIMALS - 1)

\* hype_cli.py
hype_to_wei(amount_hype) == ToWei(ParseNumber(amount_hype), HYPE_DECIMALS)

\* unstake_hype.py
unstake_hype_to_wei(amount_hype) == ToWei(ParseNumber(amount_hype), HYPE_DECIMALS)


(***************************************************************************)
(* The values the runs are given                                           *)
(***************************************************************************)
\* The longest log of calls one operation may leave.
MaxCalls == 4

\* How many times one run of the menu writes .env.
MaxWrites == 2

\* The longest run of one digit in a drawn amount literal.
MaxRun == 30

\* The most leading zeros after the point in a drawn amount literal.
MaxLeadZeros == 9

\* The most lines of a drawn .env file.
MaxLines == 2

Prefix0x == <<"0", "x">>

AddrHex == Prefix0x \o Rep("a", 40)

AddrHex2 == Prefix0x \o Rep("1", 40)

AddrNonHex == Prefix0x \o Rep("z", 40)

AddrShort == <<"0", "x", "A", "B">>

AddrNoPrefix == Rep("a", 42)

AddrLong == Prefix0x \o Rep("a", 41)

AddrPadded == <<" ">> \o AddrHex2 \o <<" ">>

Addresses == {AddrHex, AddrNonHex, AddrShort, AddrNoPrefix, AddrLong, AddrPadded, << >>}

KeyA == <<"0", "x", "k", "A">>

KeyB == <<"0", "x", "k", "B">>

KeyC == <<"0", "x", "k", "C">>

\* Amounts as typed at a prompt, on the command line or in the environment.
AmountLiterals ==
    { <<"1", "0">>, <<"5", ".", "5">>, <<"0">>, <<"-", "1">>, << >>,
      <<"0", ".", "0", "0", "0", "0", "0", "0", "0", "0", "1">>,
      <<"1", ".", "0", "0", "0", "0", "0", "0", "0", "0", "6">>,
      <<"a", "b", "c">>, <<"n", "a", "n">>, <<" ", "2", " ">> }

\* Amounts for the conversion alone: a sign, digits before the point, and after it
\* z zeros, a run of n equal digits and a tail; or no point; or an exponent.
WeiLiterals ==
    { sg \o ip \o <<".">> \o Rep("0", z) \o Rep(r, n) \o tl :
        sg \in {<< >>, <<"-">>},
        ip \in {<< >>, <<"0">>, <<"1">>, <<"1", "2">>},
        z \in 0..MaxLeadZeros,
        r \in {"9", "5"},
        n \in {0, 1, 2, 8, MaxRun - 2, MaxRun - 1, MaxRun},
        tl \in {<< >>, <<"5">>, <<"6">>, <<"4">>} }
    \cup AmountLiterals
    \cup { <<"1", "e", "-", "9">>, <<"2", "E", "1">>, <<"1", "e">>, <<".">>,
           <<"+", "3">>, <<"i", "n", "f">>, <<"7", ".">> }

NoArgs ==
    [private_key |-> None, address |-> None, amount |-> None, deposit |-> FALSE,
     withdraw |-> FALSE, testnet |-> FALSE, direction |-> None, confirm |-> None,
     choice |-> None]

NoEnviron ==
    [PRIVATE_KEY |-> None, VAULT_ADDRESS |-> None, WITHDRAW_AMOUNT_USD |-> None,
     IS_DEPOSIT |-> None, IS_MAINNET |-> None]

\* config.json: exists says whether the file could be read and parsed.
NoCfg ==
    [exists |-> FALSE, private_key |-> None, vault_address |-> None,
     default_vault_withdraw_usd |-> None, is_mainnet |-> None,
     vault_is_deposit_default |-> None]

\* Python values a flag can hold: a bool, or what json.load gave for the config's
\* entry when that is no bool (a string, or null). truthy is what `if x` sees.
PyBool(b) == [type |-> "bool", truthy |-> b, text |-> << >>]

PyStr(s) == [type |-> "str", truthy |-> s # << >>, text |-> s]

PyNone == [type |-> "NoneType", truthy |-> FALSE, text |-> << >>]

NoFlags == [is_deposit |-> PyBool(FALSE), is_mainnet |-> PyBool(TRUE)]

NoLocals ==
    [action |-> None, timestamp |-> None, signature |-> None, base_url |-> None]

\* What every run starts from, whatever its entry point and inputs.
Fresh ==
    /\ target = None
    /\ amount = None
    /\ flags = NoFlags
    /\ private_key = None
    /\ locals = NoLocals
    /\ calls = << >>
    /\ error = ""
    /\ envLog = << >>


(***************************************************************************)
(* The external signing / exchange collaborator, as seen by its callers    *)
(***************************************************************************)
\* One entry of calls: a confirmation asked of the user, or a call of the
\* collaborator with the action and nonce it was handed and whether it succeeded.
Call(kind, action, nonce, ok) ==
    [kind |-> kind, action |-> action, nonce |-> nonce, ok |-> ok]

Confirmation(yes) == Call("confirm", None, None, yes)

\* exchange.token_delegate(validator, wei, is_undelegate): signs and submits at once.
TokenDelegate(validator, wei, is_undelegate, ok) ==
    Call("submit",
         Some([type |-> "tokenDelegate", address |-> validator,
               flag |-> is_undelegate, amt |-> wei]),
         None, ok)

IsSubmit(c) == c.kind = "submit"

IsSignOrSubmit(c) == c.kind \in {"sign", "submit"}

Count(log, P(_)) == Cardinality({i \in 1..Len(log) : P(log[i])})

(***************************************************************************)
(* The conversion on its own                                               *)
(***************************************************************************)
InitWei ==
    /\ script \in {"hype_cli", "unstake_hype"}
    /\ pc = "hype_to_wei"
    /\ \E a \in WeiLiterals : args = [NoArgs EXCEPT !.amount = Some(a)]
    /\ environ = NoEnviron
    /\ cfg = NoCfg
    /\ envFile = None
    /\ Fresh

\* What a call leaves: the value returned, or the error raised.
Outcome(r) ==
    /\ amount' = IF r.ok THEN Some(r.val) ELSE None
    /\ error' = r.err

Convert ==
    /\ pc = "hype_to_wei"
    /\ Outcome(IF script = "hype_cli" THEN hype_to_wei(args.amount[1])
               ELSE unstake_hype_to_wei(args.amount[1]))
    /\ pc' = "converted"
    /\ UNCHANGED << script, args, environ, cfg, target, flags, private_key, locals,
                    calls, envFile, envLog >>

SpecWei == InitWei /\ [][Convert]_vars

(***************************************************************************)
(* unstake_hype.py                                                         *)
(***************************************************************************)
InitUnstake ==
    /\ script = "unstake_hype"
    /\ pc = "start"
    /\ \E v \in Addresses, a \in AmountLiterals :
          args = [NoArgs EXCEPT !.address = Some(v), !.amount = Some(a)]
    /\ environ = NoEnviron
    /\ \E k \in {None, Some(KeyC)} :
          cfg \in {NoCfg, [NoCfg EXCEPT !.exists = TRUE, !.private_key = k]}
    /\ envFile = None
    /\ Fresh

\* load_config of unstake_hype.py: the file must open and parse, and hold the key.
unstake_load_config(c) ==
    IF ~c.exists THEN "ConfigFileMissingOrInvalid"
    ELSE IF c.private_key = None THEN "MissingRequiredField"
    ELSE ""

\* main, lines 69-72: the config and the wallet (Account.from_key may refuse the key).
U_LoadConfig ==
    /\ script = "unstake_hype" /\ pc = "start"
    /\ LET e == unstake_load_config(cfg)
       IN  \/ /\ e # ""
              /\ error' = e /\ pc' = "done" /\ UNCHANGED private_key
           \/ /\ e = ""
              /\ \E keyOk \in BOOLEAN :
                    IF keyOk
                    THEN private_key' = cfg.private_key /\ pc' = "convert"
                                                       /\ UNCHANGED error
                    ELSE error' = "InvalidPrivateKey" /\ pc' = "done"
                                                       /\ UNCHANGED private_key
    /\ UNCHANGED << script, args, environ, cfg, target, amount, flags, locals, calls,
                    envFile, envLog >>

\* main, lines 74-86: the validator is taken as given, the amount is converted.
U_Convert ==
    /\ script = "unstake_hype" /\ pc = "convert"
    /\ LET r == unstake_hype_to_wei(args.amount[1])
       IN  IF r.ok
           THEN /\ amount' = Some(r.val)
                /\ target' = args.address
                /\ pc' = "send"
                /\ UNCHANGED error
           ELSE /\ error' = r.err
                /\ pc' = "done"
                /\ UNCHANGED << amount, target >>
    /\ UNCHANGED << script, args, environ, cfg, flags, private_key, locals, calls,
                    envFile, envLog >>

\* The handler resubmits instead of returning.
unstake_on_error_retry == "send"

\* except Exception: the failure is printed and main returns.
unstake_on_error == "done"

\* main, lines 89-101: one call of token_delegate, inside try.
U_Send ==
    /\ script = "unstake_hype" /\ pc = "send"
    /\ Len(calls) < MaxCalls
    /\ \E ok \in BOOLEAN :
          /\ calls' = Append(calls, TokenDelegate(target[1], amount[1], TRUE, ok))
          /\ IF ok THEN error' = "" /\ pc' = "done"
             ELSE error' = "NetworkOrSigningFailure" /\ pc' = unstake_on_error
    /\ UNCHANGED << script, args, environ, cfg, target, amount, flags, private_key,
                    locals, envFile, envLog >>

UnstakeNext == U_LoadConfig \/ U_Convert \/ U_Send


(***************************************************************************)
(* vault_withdraw.py                                                       *)
(***************************************************************************)
\* load_local_config: a missing or unparsable file is an empty mapping.
load_local_config(c) == IF c.exists THEN c ELSE NoCfg

first_non_none(a, b, c) == IF a # None THEN a ELSE IF b # None THEN b ELSE c

\* Python's `not x` on an optional string: None and the empty string are falsy.
Falsy(x) == x = None \/ x[1] = << >>

TrueWords == { <<"1">>, <<"t", "r", "u", "e">>, <<"y", "e", "s">>, <<"y">> }

FalseWords == { <<"0">>, <<"f", "a", "l", "s", "e">>, <<"n", "o">>, <<"n">> }

str_to_bool(value, default) ==
    IF value = None THEN default
    ELSE LET v == Lower(Strip(value[1]))
         IN  IF v \in TrueWords THEN PyBool(TRUE)
             ELSE IF v \in FalseWords THEN PyBool(FALSE)
             ELSE default

\* dict.get(key, default) on an optional entry
Get(entry, default) == IF entry = None THEN default ELSE entry[1]

\* The shape test of line 186.
vault_address_ok(a) == StartsWith(a, Prefix0x) /\ Len(a) = 42

\* float_to_usd_int of the collaborator: the amount at 6 decimals, rounded to the
\* nearest integer; it refuses nan, an infinity, and an amount whose 6-decimal value
\* is 0.001 or more away from that integer.
float_to_usd_int(x) ==
    CASE x.kind = "nan" -> Raised("ValueError")
      [] x.kind = "inf" -> Raised("OverflowError")
      [] OTHER ->
           LET p     == ExactMulPow10(x, 6)
               nf    == FracDigits(p)
               fd    == IF nf = 0 THEN << >>
                        ELSE IF nf >= Len(p.digs)
                        THEN Rep(0, nf - Len(p.digs)) \o p.digs
                        ELSE SubSeq(p.digs, Len(p.digs) - nf + 1, Len(p.digs))
               f3    == SubSeq(fd \o <<0, 0, 0>>, 1, 3)
               more  == ~IsZeroDigs(SubSeq(fd, 4, Len(fd)))
               far   == /\ f3 # <<0, 0, 0>>
                        /\ ~(f3 = <<9, 9, 9>> /\ more)
           IN  IF far THEN Raised("ValueError") ELSE Returned(DecRound(p))

build_vault_transfer_action(vault_address, is_deposit, usd_int) ==
    [type |-> "vaultTransfer", address |-> vault_address, flag |-> is_deposit,
     amt |-> usd_int]

\* sign_l1_action: the signature stands for what was signed, by whom, for which net.
\* The signature is always made for mainnet, whatever network was resolved.
sign_l1_action_mainnet_only(wallet, action, nonce, is_mainnet) ==
    [wallet |-> wallet, action |-> action, nonce |-> nonce, is_mainnet |-> PyBool(TRUE)]

sign_l1_action(wallet, action, nonce, is_mainnet) ==
    [wallet |-> wallet, action |-> action, nonce |-> nonce, is_mainnet |-> is_mainnet]

Timestamps == {1, 2}

VaultDone(e) == error' = e /\ pc' = "done"

\* main, lines 160-172
V_ResolveKey ==
    /\ script = "vault_withdraw" /\ pc = "start"
    /\ LET c  == load_local_config(cfg)
           pk == first_non_none(args.private_key, environ.PRIVATE_KEY, c.private_key)
       IN  /\ private_key' = pk
           /\ IF Falsy(pk) THEN VaultDone("MissingPrivateKey")
              ELSE pc' = "resolve_vault" /\ UNCHANGED error
    /\ UNCHANGED << script, args, environ, cfg, target, amount, flags, locals, calls,
                    envFile, envLog >>

\* main, lines 174-187
V_ResolveVault ==
    /\ script = "vault_withdraw" /\ pc = "resolve_vault"
    /\ LET c  == load_local_config(cfg)
           va == first_non_none(args.address, environ.VAULT_ADDRESS, c.vault_address)
       IN  /\ target' = va
           /\ IF Falsy(va) THEN VaultDone("MissingVaultAddress")
              ELSE IF ~vault_address_ok(va[1]) THEN VaultDone("InvalidAddressFormat")
              ELSE pc' = "resolve_amount" /\ UNCHANGED error
    /\ UNCHANGED << script, args, environ, cfg, amount, flags, private_key, locals,
                    calls, envFile, envLog >>

\* main, lines 189-206: the environment's amount is parsed before the sources are
\* compared, so float() raises on a malformed one whoever would have won.
V_ResolveAmount ==
    /\ script = "vault_withdraw" /\ pc = "resolve_amount"
    /\ LET c   == load_local_config(cfg)
           env == environ.WITHDRAW_AMOUNT_USD
           f   == IF env = None THEN Invalid ELSE ParseNumber(env[1])
           amount_from_env_float == IF env = None THEN None ELSE Some(f)
           amount_usd == first_non_none(args.amount, amount_from_env_float,
                                        c.default_vault_withdraw_usd)
       IN  IF env # None /\ f.kind = "invalid"
           THEN VaultDone("ValueError") /\ UNCHANGED amount
           ELSE /\ amount' = amount_usd
                /\ IF amount_usd = None THEN VaultDone("MissingAmount")
                   ELSE IF FloatNonPositive(amount_usd[1])
                   THEN VaultDone("NonPositiveAmount")
                   ELSE pc' = "resolve_flags" /\ UNCHANGED error
    /\ UNCHANGED << script, args, environ, cfg, target, flags, private_key, locals,
                    calls, envFile, envLog >>

\* main, lines 208-230
V_ResolveFlags ==
    /\ script = "vault_withdraw" /\ pc = "resolve_flags"
    /\ LET c == load_local_config(cfg)
           is_mainnet == IF args.testnet THEN PyBool(FALSE)
                         ELSE str_to_bool(environ.IS_MAINNET,
                                          Get(c.is_mainnet, PyBool(TRUE)))
           is_deposit == IF args.deposit THEN PyBool(TRUE)
                         ELSE IF args.withdraw THEN PyBool(FALSE)
                         ELSE str_to_bool(environ.IS_DEPOSIT,
                                          Get(c.vault_is_deposit_default, PyBool(FALSE)))
       IN  /\ flags' = [is_deposit |-> is_deposit, is_mainnet |-> is_mainnet]
           /\ locals' = [locals EXCEPT
                           !.base_url = Some(IF is_mainnet.truthy THEN "MAINNET_API_URL"
                                             ELSE "TESTNET_API_URL")]
    /\ pc' = "wallet"
    /\ UNCHANGED << script, args, environ, cfg, target, amount, private_key, calls,
                    error, envFile, envLog >>

\* main, lines 232-248: the summary is printed, then Account.from_key (which may
\* refuse the key) and the Exchange client; nobody is asked anything.
V_Wallet ==
    /\ script = "vault_withdraw" /\ pc = "wallet"
    /\ \E keyOk \in BOOLEAN :
          IF keyOk THEN pc' = "sign" /\ UNCHANGED error
          ELSE VaultDone("InvalidPrivateKey")
    /\ UNCHANGED << script, args, environ, cfg, target, amount, flags, private_key,
                    locals, calls, envFile, envLog >>

\* main, lines 250-273: the nonce, the action, the signature.
V_Sign ==
    /\ script = "vault_withdraw" /\ pc = "sign"
    /\ \E timestamp \in Timestamps, ok \in BOOLEAN :
          LET usd == float_to_usd_int(amount[1])
              action == build_vault_transfer_action(target[1], flags.is_deposit,
                                                    usd.val)
              sig == sign_l1_action(private_key[1], action, timestamp,
                                    flags.is_mainnet)
          IN  IF ~usd.ok
              THEN VaultDone(usd.err) /\ UNCHANGED << locals, calls >>
              ELSE /\ calls' = Append(calls, Call("sign", Some(action),
                                                  Some(timestamp), ok))
                   /\ IF ok
                      THEN /\ locals' = [locals EXCEPT !.action = Some(action),
                                                       !.timestamp = Some(timestamp),
                                                       !.signature = Some(sig)]
                           /\ pc' = "post"
                           /\ UNCHANGED error
                      ELSE /\ VaultDone("NetworkOrSigningFailure")
                           /\ UNCHANGED locals
    /\ UNCHANGED << script, args, environ, cfg, target, amount, flags, private_key, envFile, envLog >>

\* main, lines 275-279: one call of _post_action, outside any try.
V_Post ==
    /\ script = "vault_withdraw" /\ pc = "post"
    /\ \E ok \in BOOLEAN :
          /\ calls' = Append(calls, Call("submit", locals.action, locals.timestamp, ok))
          /\ VaultDone(IF ok THEN "" ELSE "NetworkOrSigningFailure")
    /\ UNCHANGED << script, args, environ, cfg, target, amount, flags, private_key,
                    locals, envFile, envLog >>

VaultNext ==
    \/ V_ResolveKey
    \/ V_ResolveVault
    \/ V_ResolveAmount
    \/ V_ResolveFlags
    \/ V_Wallet
    \/ V_Sign
    \/ V_Post


(***************************************************************************)
(* hype_cli.py: the menu                                                   *)
(***************************************************************************)
\* What is typed at the prompts of the menu's operations.
PromptAddresses == {AddrPadded, AddrNonHex, AddrShort, AddrNoPrefix}

PromptAmounts ==
    { <<"1", "0">>, <<"0">>, <<"a", "b", "c">>, <<" ", "2", " ">>, <<"n", "a", "n">> }

\* load_config of hype_cli.py: SystemExit(1) without the file or without the key.
load_config(c) ==
    IF ~c.exists THEN "ConfigFileMissingOrInvalid"
    ELSE IF c.private_key = None THEN "MissingRequiredField"
    ELSE ""

\* main_menu, lines 442-454: the config, then build_clients (mainnet only).
M_Boot ==
    /\ script = "hype_cli" /\ pc = "boot"
    /\ LET e == load_config(cfg)
       IN  \/ /\ e # ""
              /\ error' = e /\ pc' = "exit" /\ UNCHANGED << private_key, locals >>
           \/ /\ e = ""
              /\ \E keyOk \in BOOLEAN :
                    IF keyOk
                    THEN /\ private_key' = cfg.private_key
                         /\ locals' = [locals EXCEPT !.base_url = Some("MAINNET_API_URL")]
                         /\ pc' = "menu"
                         /\ UNCHANGED error
                    ELSE /\ error' = "InvalidPrivateKey" /\ pc' = "exit"
                         /\ UNCHANGED << private_key, locals >>
    /\ UNCHANGED << script, args, environ, cfg, target, amount, flags, calls, envFile,
                    envLog >>

\* A menu choice starts an operation with nothing left of the one before.
Choose(choice, next) ==
    /\ script = "hype_cli" /\ pc = "menu"
    /\ args' = [NoArgs EXCEPT !.choice = Some(choice)]
    /\ target' = None
    /\ amount' = None
    /\ flags' = NoFlags
    /\ locals' = [NoLocals EXCEPT !.base_url = locals.base_url]
    /\ calls' = << >>
    /\ error' = ""
    /\ pc' = next
    /\ UNCHANGED << script, environ, cfg, private_key, envFile, envLog >>

\* main_menu, lines 466-480
M_ChooseOverview == Choose(<<"1">>, "overview")

M_ChooseUnstake == Choose(<<"2">>, "unstake_validator")

M_ChoosePrepareEnv == Len(envLog) < MaxWrites /\ Choose(<<"3">>, "env_amount")

M_ChooseVault == Choose(<<"4">>, "vault_address")

M_ChooseExit == Choose(<<"5">>, "exit")

M_ChooseInvalid == Choose(<<"x">>, "menu")

\* show_staking_overview: two queries, each failure caught inside fetch_staking_data.
M_Overview ==
    /\ script = "hype_cli" /\ pc = "overview"
    /\ \E ok1, ok2 \in BOOLEAN :
          calls' = << Call("query", None, None, ok1), Call("query", None, None, ok2) >>
    /\ pc' = "menu"
    /\ UNCHANGED << script, args, environ, cfg, target, amount, flags, private_key,
                    locals, error, envFile, envLog >>

\* The shape test of line 224.
validator_format_ok(validator) == StartsWith(validator, Prefix0x) /\ Len(validator) = 42

\* action_unstake, lines 219-226
A_UnstakeValidator ==
    /\ script = "hype_cli" /\ pc = "unstake_validator"
    /\ \E typed \in PromptAddresses :
          LET validator == Strip(typed)
          IN  /\ args' = [args EXCEPT !.address = Some(typed)]
              /\ IF validator_format_ok(validator)
                 THEN target' = Some(validator) /\ pc' = "unstake_amount"
                                                /\ UNCHANGED error
                 ELSE error' = "InvalidAddressFormat" /\ pc' = "menu"
                                                      /\ UNCHANGED target
    /\ UNCHANGED << script, environ, cfg, amount, flags, private_key, locals, calls,
                    envFile, envLog >>

\* action_unstake, lines 228-237
A_UnstakeAmount ==
    /\ script = "hype_cli" /\ pc = "unstake_amount"
    /\ \E typed \in PromptAmounts :
          LET amount_str == Strip(typed)
              r == hype_to_wei(amount_str)
          IN  /\ args' = [args EXCEPT !.amount = Some(typed)]
              /\ IF r.ok
                 THEN amount' = Some(r.val) /\ pc' = "unstake_confirm" /\ UNCHANGED error
                 ELSE error' = r.err /\ pc' = "menu" /\ UNCHANGED amount
    /\ UNCHANGED << script, environ, cfg, target, flags, private_key, locals, calls,
                    envFile, envLog >>

\* Confirm.ask: the answer is logged, and only a yes goes on.
Confirm(here, next) ==
    /\ script = "hype_cli" /\ pc = here
    /\ \E yes \in BOOLEAN :
          /\ args' = [args EXCEPT !.confirm = Some(yes)]
          /\ calls' = Append(calls, Confirmation(yes))
          /\ pc' = IF yes THEN next ELSE "menu"
    /\ UNCHANGED << script, environ, cfg, target, amount, flags, private_key, locals,
                    error, envFile, envLog >>

\* action_unstake, lines 239-251
A_UnstakeConfirm == Confirm("unstake_confirm", "unstake_send")

\* except Exception: the failure is printed and action_unstake returns.
cli_unstake_on_error == "menu"

\* action_unstake, lines 253-268: one call of token_delegate, inside try.
A_UnstakeSend ==
    /\ script = "hype_cli" /\ pc = "unstake_send"
    /\ Len(calls) < MaxCalls
    /\ \E ok \in BOOLEAN :
          /\ calls' = Append(calls, TokenDelegate(target[1], amount[1], TRUE, ok))
          /\ IF ok THEN error' = "" /\ pc' = "menu"
             ELSE error' = "NetworkOrSigningFailure" /\ pc' = cli_unstake_on_error
    /\ UNCHANGED << script, args, environ, cfg, target, amount, flags, private_key,
                    locals, envFile, envLog >>


(***************************************************************************)
(* hype_cli.py: action_vault_transfer                                      *)
(***************************************************************************)
\* The shape test of line 359.
vault_format_ok(vault_address) ==
    StartsWith(vault_address, Prefix0x) /\ Len(vault_address) = 42

\* lines 354-361
A_VaultAddress ==
    /\ script = "hype_cli" /\ pc = "vault_address"
    /\ \E typed \in PromptAddresses :
          LET vault_address == Strip(typed)
          IN  /\ args' = [args EXCEPT !.address = Some(typed)]
              /\ IF vault_format_ok(vault_address)
                 THEN target' = Some(vault_address) /\ pc' = "vault_direction"
                                                    /\ UNCHANGED error
                 ELSE error' = "InvalidAddressFormat" /\ pc' = "menu"
                                                      /\ UNCHANGED target
    /\ UNCHANGED << script, environ, cfg, amount, flags, private_key, locals, calls,
                    envFile, envLog >>

\* lines 363-373: only the answer 1 is a deposit.
A_VaultDirection ==
    /\ script = "hype_cli" /\ pc = "vault_direction"
    /\ \E typed \in { <<"1">>, <<"2">>, <<" ", "1">>, <<"x">> } :
          /\ args' = [args EXCEPT !.direction = Some(typed)]
          /\ flags' = [flags EXCEPT !.is_deposit = PyBool(Strip(typed) = <<"1">>)]
    /\ pc' = "vault_amount"
    /\ UNCHANGED << script, environ, cfg, target, amount, private_key, locals, calls,
                    error, envFile, envLog >>

\* lines 375-386: float() and the test amount_usd <= 0, both inside try.
A_VaultAmount ==
    /\ script = "hype_cli" /\ pc = "vault_amount"
    /\ \E typed \in PromptAmounts :
          LET amount_usd == ParseNumber(Strip(typed))
          IN  /\ args' = [args EXCEPT !.amount = Some(typed)]
              /\ IF amount_usd.kind = "invalid" \/ FloatNonPositive(amount_usd)
                 THEN error' = "InvalidAmount" /\ pc' = "menu" /\ UNCHANGED amount
                 ELSE amount' = Some(amount_usd) /\ pc' = "vault_confirm"
                                                 /\ UNCHANGED error
    /\ UNCHANGED << script, environ, cfg, target, flags, private_key, locals, calls,
                    envFile, envLog >>

\* lines 388-402
A_VaultConfirm == Confirm("vault_confirm", "vault_sign")

\* lines 404-420: the action, the nonce and the signature, outside any try: what
\* float_to_usd_int or sign_l1_action raises leaves action_vault_transfer and the menu.
A_VaultSign ==
    /\ script = "hype_cli" /\ pc = "vault_sign"
    /\ \E timestamp \in Timestamps, ok \in BOOLEAN :
          LET usd == float_to_usd_int(amount[1])
              action == build_vault_transfer_action(target[1], flags.is_deposit,
                                                    usd.val)
              sig == sign_l1_action(private_key[1], action, timestamp, PyBool(TRUE))
          IN  IF ~usd.ok
              THEN error' = usd.err /\ pc' = "crashed" /\ UNCHANGED << locals, calls >>
              ELSE /\ calls' = Append(calls, Call("sign", Some(action),
                                                  Some(timestamp), ok))
                   /\ IF ok
                      THEN /\ locals' = [locals EXCEPT !.action = Some(action),
                                                       !.timestamp = Some(timestamp),
                                                       !.signature = Some(sig)]
                           /\ pc' = "vault_post"
                           /\ UNCHANGED error
                      ELSE /\ error' = "NetworkOrSigningFailure" /\ pc' = "crashed"
                           /\ UNCHANGED locals
    /\ UNCHANGED << script, args, environ, cfg, target, amount, flags, private_key,
                    envFile, envLog >>

\* except Exception: the failure is printed and action_vault_transfer returns.
cli_vault_on_error == "menu"

\* lines 422-431: one call of _post_action, inside try.
A_VaultPost ==
    /\ script = "hype_cli" /\ pc = "vault_post"
    /\ Len(calls) < MaxCalls
    /\ \E ok \in BOOLEAN :
          /\ calls' = Append(calls, Call("submit", locals.action, locals.timestamp, ok))
          /\ IF ok THEN error' = "" /\ pc' = "menu"
             ELSE error' = "NetworkOrSigningFailure" /\ pc' = cli_vault_on_error
    /\ UNCHANGED << script, args, environ, cfg, target, amount, flags, private_key,
                    locals, envFile, envLog >>

(***************************************************************************)
(* hype_cli.py: action_prepare_withdraw_env and the .env file              *)
(***************************************************************************)
PK_PREFIX == <<"P", "R", "I", "V", "A", "T", "E", "_", "K", "E", "Y", "=">>

AMOUNT_PREFIX ==
    <<"A", "M", "O", "U", "N", "T", "_", "H", "Y", "P", "E", "_", "T", "O", "_",
      "W", "I", "T", "H", "D", "R", "A", "W", "=">>

NL == <<"\n">>

\* f.readlines(): the text cut after each newline, the newlines kept.
RECURSIVE readlines(_)
readlines(text) ==
    IF Len(text) = 0 THEN << >>
    ELSE LET i == IndexOf(text, "\n")
         IN  IF i = 0 THEN << text >>
             ELSE << SubSeq(text, 1, i) >> \o readlines(SubSeq(text, i + 1, Len(text)))

\* f.writelines(): the lines one after the other, nothing added between them.
RECURSIVE writelines(_)
writelines(lines) ==
    IF Len(lines) = 0 THEN << >> ELSE Head(lines) \o writelines(Tail(lines))

\* wallet.key.hex(): the key's hex digits, without the 0x of the config's spelling.
KeyHex(key) == IF StartsWith(key, Prefix0x) THEN SubSeq(key, 3, Len(key)) ELSE key

\* lines 298-326: each line that starts with a recognized key is replaced, a key not
\* seen is appended, every other line is kept as read.
upsert_env(file, key, amount_str) ==
    LET lines  == IF file = None THEN << >> ELSE readlines(file[1])
        pk_str == PK_PREFIX \o KeyHex(key) \o NL
        amt_str == AMOUNT_PREFIX \o amount_str \o NL
        IsPk(l) == StartsWith(l, PK_PREFIX)
        IsAmt(l) == ~IsPk(l) /\ StartsWith(l, AMOUNT_PREFIX)
        body   == [i \in 1..Len(lines) |->
                     IF IsPk(lines[i]) THEN pk_str
                     ELSE IF IsAmt(lines[i]) THEN amt_str
                     ELSE lines[i]]
        seen_pk == \E i \in 1..Len(lines) : IsPk(lines[i])
        seen_amount == \E i \in 1..Len(lines) : IsAmt(lines[i])
        new_lines == body \o (IF seen_pk THEN << >> ELSE << pk_str >>)
                          \o (IF seen_amount THEN << >> ELSE << amt_str >>)
    IN  Some(writelines(new_lines))

EnvAmounts == { <<"1", "0", ".", "0">>, <<" ", "2">>, <<"0">>, <<"a", "b", "c">> }

\* lines 283-296
A_EnvAmount ==
    /\ script = "hype_cli" /\ pc = "env_amount"
    /\ \E typed \in EnvAmounts :
          LET amount_str == Strip(typed)
              amount_val == ParseNumber(amount_str)
          IN  IF amount_val.kind = "invalid" \/ FloatNonPositive(amount_val)
              THEN error' = "InvalidAmount" /\ pc' = "menu" /\ UNCHANGED args
              ELSE args' = [args EXCEPT !.amount = Some(amount_str)]
                   /\ pc' = "env_write" /\ UNCHANGED error
    /\ UNCHANGED << script, environ, cfg, target, amount, flags, private_key, locals,
                    calls, envFile, envLog >>

\* lines 298-341
A_EnvWrite ==
    /\ script = "hype_cli" /\ pc = "env_write"
    /\ envFile' = upsert_env(envFile, private_key[1], args.amount[1])
    /\ envLog' = Append(envLog, [key |-> private_key[1], amount |-> args.amount[1],
                                 before |-> envFile, after |-> envFile'])
    /\ pc' = "menu"
    /\ UNCHANGED << script, args, environ, cfg, target, amount, flags, private_key,
                    locals, calls, error >>

CliNext ==
    \/ M_Boot
    \/ M_ChooseOverview
    \/ M_ChooseUnstake
    \/ M_ChoosePrepareEnv
    \/ M_ChooseVault
    \/ M_ChooseExit
    \/ M_ChooseInvalid
    \/ M_Overview
    \/ A_UnstakeValidator
    \/ A_UnstakeAmount
    \/ A_UnstakeConfirm
    \/ A_UnstakeSend
    \/ A_VaultAddress
    \/ A_VaultDirection
    \/ A_VaultAmount
    \/ A_VaultConfirm
    \/ A_VaultSign
    \/ A_VaultPost
    \/ A_EnvAmount
    \/ A_EnvWrite


(***************************************************************************)
(* The runs                                                                *)
(***************************************************************************)
\* Floats as argparse and json hand them over: 2.0, 1.5, 3.0, 0.0
F2 == Num(FALSE, <<2>>, 0)

F15 == Num(FALSE, <<1, 5>>, 0 - 1)

F3 == Num(FALSE, <<3>>, 0)

F0 == Num(FALSE, <<0>>, 0)

FooLine == <<"F", "O", "O", "=", "1">>

InitCli ==
    /\ script = "hype_cli"
    /\ pc = "boot"
    /\ args = NoArgs
    /\ environ = NoEnviron
    /\ \E k \in {None, Some(KeyC)} :
          cfg \in {NoCfg, [NoCfg EXCEPT !.exists = TRUE, !.private_key = k]}
    /\ envFile \in {None, Some(FooLine)}
    /\ Fresh

InitVault ==
    /\ script = "vault_withdraw"
    /\ pc = "start"
    /\ \E k \in {None, Some(KeyA)}, a \in {None, Some(AddrHex), Some(AddrShort),
                                          Some(AddrNonHex)},
          m \in {None, Some(F2), Some(F0)}, d, t \in BOOLEAN :
          args = [NoArgs EXCEPT !.private_key = k, !.address = a, !.amount = m,
                                !.deposit = d, !.testnet = t]
    /\ \E m \in {None, Some(<<"a", "b", "c">>)},
          n \in {None, Some(<<"f", "a", "l", "s", "e">>)} :
          environ = [NoEnviron EXCEPT !.WITHDRAW_AMOUNT_USD = m, !.IS_MAINNET = n]
    /\ \E k \in {None, Some(KeyC)},
          n \in {None, Some(PyStr(<<"f", "a", "l", "s", "e">>))} :
          cfg = [NoCfg EXCEPT !.exists = TRUE, !.private_key = k, !.is_mainnet = n]
    /\ envFile = None
    /\ Fresh

Init == InitCli \/ InitUnstake \/ InitVault

Next == CliNext \/ UnstakeNext \/ VaultNext

Spec == Init /\ [][Next]_vars

\* vault_withdraw.py alone, each required field given by every mix of its sources.
InitResolve ==
    /\ script = "vault_withdraw"
    /\ pc = "start"
    /\ \E k \in {None, Some(KeyA), Some(<< >>)},
          a \in {None, Some(AddrHex), Some(AddrShort)},
          m \in {None, Some(F2), Some(F0)} :
          args = [NoArgs EXCEPT !.private_key = k, !.address = a, !.amount = m]
    /\ \E k \in {None, Some(KeyB), Some(<< >>)},
          a \in {None, Some(AddrHex2), Some(AddrNoPrefix), Some(<< >>)},
          m \in {None, Some(<<"1", ".", "5">>), Some(<<"-", "1">>), Some(<< >>),
                 Some(<<"a", "b", "c">>), Some(<<"n", "a", "n">>)} :
          environ = [NoEnviron EXCEPT !.PRIVATE_KEY = k, !.VAULT_ADDRESS = a,
                                      !.WITHDRAW_AMOUNT_USD = m]
    /\ \E k \in {None, Some(KeyC)}, a \in {None, Some(AddrNonHex)},
          m \in {None, Some(F3)} :
          cfg = [NoCfg EXCEPT !.exists = TRUE, !.private_key = k, !.vault_address = a,
                              !.default_vault_withdraw_usd = m]
    /\ envFile = None
    /\ Fresh

SpecResolve == InitResolve /\ [][VaultNext]_vars

\* What IS_MAINNET and IS_DEPOSIT are set to in the environment.
FlagWords ==
    { <<"t", "r", "u", "e">>, <<" ", "Y", "E", "S", " ">>, <<"0">>, <<"N", "o">>,
      <<"m", "a", "y", "b", "e">>, << >> }

\* What config.json holds under is_mainnet and vault_is_deposit_default: a JSON
\* boolean, a JSON string, or null.
FlagEntries ==
    { Some(PyBool(TRUE)), Some(PyBool(FALSE)), Some(PyStr(<<"f", "a", "l", "s", "e">>)),
      Some(PyNone) }

\* vault_withdraw.py alone, key, vault address and amount given on the command line,
\* the two flags given by every mix of their sources.
InitFlags ==
    /\ script = "vault_withdraw"
    /\ pc = "start"
    /\ \E d, w, t \in BOOLEAN :
          /\ ~(d /\ w)
          /\ args = [NoArgs EXCEPT !.private_key = Some(KeyA), !.address = Some(AddrHex),
                                   !.amount = Some(F2), !.deposit = d, !.withdraw = w,
                                   !.testnet = t]
    /\ \E n, d \in {None} \cup {Some(x) : x \in FlagWords} :
          environ = [NoEnviron EXCEPT !.IS_MAINNET = n, !.IS_DEPOSIT = d]
    /\ \E e \in BOOLEAN, n, d \in {None} \cup FlagEntries :
          cfg = [NoCfg EXCEPT !.exists = e, !.is_mainnet = n,
                              !.vault_is_deposit_default = d]
    /\ envFile = None
    /\ Fresh

SpecFlags == InitFlags /\ [][VaultNext]_vars

\* The lines a drawn .env file is made of.
LineBodies ==
    { FooLine, << >>, PK_PREFIX \o <<"o", "l", "d">>, AMOUNT_PREFIX \o <<"5">>,
      <<" ">> \o PK_PREFIX \o <<"x">> }

\* n lines, each ended by a newline, the last one only when nl.
MakeFile(f, n, nl) ==
    writelines([i \in 1..n |-> f[i] \o (IF i < n \/ nl THEN NL ELSE << >>)])

EnvFiles ==
    {None} \cup
    { Some(MakeFile(f, n, nl)) : f \in [1..MaxLines -> LineBodies], n \in 0..MaxLines,
                                 nl \in BOOLEAN }

\* The menu after its start, before any .env was written.
InitEnvFile ==
    /\ script = "hype_cli"
    /\ pc = "menu"
    /\ args = NoArgs
    /\ environ = NoEnviron
    /\ cfg = [NoCfg EXCEPT !.exists = TRUE, !.private_key = Some(KeyC)]
    /\ envFile \in EnvFiles
    /\ target = None
    /\ amount = None
    /\ flags = NoFlags
    /\ private_key = Some(KeyC)
    /\ locals = [NoLocals EXCEPT !.base_url = Some("MAINNET_API_URL")]
    /\ calls = << >>
    /\ error = ""
    /\ envLog = << >>

EnvNext == M_ChoosePrepareEnv \/ A_EnvAmount \/ A_EnvWrite

SpecEnvFile == InitEnvFile /\ [][EnvNext]_vars


(***************************************************************************)
(* Properties                                                              *)
(***************************************************************************)
\* The value the documented order explicit > environment > file picks.
Preferred(a, b, c) == IF a # None THEN a ELSE IF b # None THEN b ELSE c

\* float(B) of the environment's amount B, when B is present.
EnvAmount ==
    IF environ.WITHDRAW_AMOUNT_USD = None THEN None
    ELSE Some(ParseNumber(environ.WITHDRAW_AMOUNT_USD[1]))

VaultReached == pc \notin {"start", "resolve_vault"} /\ error # "MissingPrivateKey"

AmountReached ==
    /\ pc \notin {"start", "resolve_vault", "resolve_amount"}
    /\ error \notin {"MissingPrivateKey", "MissingVaultAddress", "InvalidAddressFormat"}

\* C1: in vault_withdraw.py each of private key, vault address and USD amount
\* resolves to the command-line value when given, else to the environment's value
\* when present (an empty string included), else to the config file's. (For the
\* amount, a present environment value that is no number has no value to resolve to
\* and is held against the claim only when the command line should have won.)
C1_Precedence ==
    script = "vault_withdraw" =>
      /\ pc # "start" =>
           private_key = Preferred(args.private_key, environ.PRIVATE_KEY,
                                   cfg.private_key)
      /\ VaultReached =>
           target = Preferred(args.address, environ.VAULT_ADDRESS, cfg.vault_address)
      /\ AmountReached =>
           /\ args.amount # None => amount = args.amount
           /\ (args.amount = None /\ EnvAmount # None
                  /\ EnvAmount[1].kind # "invalid") => amount = EnvAmount
           /\ (args.amount = None /\ EnvAmount = None) =>
                amount = cfg.default_vault_withdraw_usd

\* C2: first match wins: with a field given on the command line, the outcome of its
\* resolution (the value, or the error) is what the command-line value alone decides,
\* whatever the environment and the config file hold, malformed values included.
C2_FirstMatchWins ==
    script = "vault_withdraw" =>
      /\ (pc # "start" /\ args.private_key # None) =>
           /\ private_key = args.private_key
           /\ (error = "MissingPrivateKey") <=> (args.private_key[1] = << >>)
      /\ (VaultReached /\ args.address # None) =>
           /\ target = args.address
           /\ (error = "MissingVaultAddress") <=> (args.address[1] = << >>)
      /\ (AmountReached /\ args.amount # None) =>
           /\ amount = args.amount
           /\ (error = "NonPositiveAmount") <=> FloatNonPositive(args.amount[1])
           /\ error \notin {"ValueError", "MissingAmount"}

\* C3: a sign or submit call of the collaborator comes only after the user answered
\* yes to a confirmation in the same operation, in every entry point.
C3_ConfirmedBeforeCall ==
    \A i \in 1..Len(calls) :
       IsSignOrSubmit(calls[i]) => \E j \in 1..(i - 1) : calls[j] = Confirmation(TRUE)

Ended == pc \in {"menu", "done", "exit", "crashed"}

\* C4: one operation submits at most once; a failed submit is the last thing the
\* operation does, it ends reporting the failure; the log of calls starts anew only
\* with a new menu choice or a new run.
C4_SubmitAtMostOnce ==
    /\ Count(calls, IsSubmit) <= 1
    /\ \A i \in 1..Len(calls) :
          (IsSubmit(calls[i]) /\ ~calls[i].ok) =>
             /\ i = Len(calls)
             /\ Ended
             /\ error = "NetworkOrSigningFailure"

C4_Witness ==
    /\ script = "hype_cli" /\ pc = "menu"
    /\ Len(calls) = 2
    /\ calls[1] = Confirmation(TRUE)
    /\ IsSubmit(calls[2]) /\ ~calls[2].ok
    /\ error = "NetworkOrSigningFailure"

\* An address that has not the shape 0x + 40 more characters.
Misshapen(a) == ~(StartsWith(a, Prefix0x) /\ Len(a) = 42)

ZeroOrNegative(x) == x.kind = "num" /\ (x.neg \/ IsZeroDigs(x.digs))

\* The operation under way was given a zero or negative amount, lacks a required
\* field in every source, or was given a misshapen target address.
BadInput ==
    CASE script = "unstake_hype" ->
           \/ Misshapen(args.address[1])
           \/ ZeroOrNegative(ParseNumber(args.amount[1]))
           \/ load_local_config(cfg).private_key = None
      [] script = "vault_withdraw" ->
           LET k == Preferred(args.private_key, environ.PRIVATE_KEY, cfg.private_key)
               a == Preferred(args.address, environ.VAULT_ADDRESS, cfg.vault_address)
               m == Preferred(args.amount, EnvAmount, cfg.default_vault_withdraw_usd)
           IN  \/ k = None \/ a = None \/ m = None
               \/ Misshapen(a[1])
               \/ ZeroOrNegative(m[1])
      [] OTHER ->
           \/ args.address # None /\ Misshapen(Strip(args.address[1]))
           \/ args.amount # None /\ ZeroOrNegative(ParseNumber(Strip(args.amount[1])))

\* C5: an operation with a zero or negative amount, a missing required field or a
\* malformed target address makes no sign or submit call, and ends in an error.
C5_ValidationBeforeCall ==
    BadInput =>
      /\ \A i \in 1..Len(calls) : ~IsSignOrSubmit(calls[i])
      /\ Ended => error \notin {"", "NetworkOrSigningFailure"}


\* The literal that was converted, as a decimal, and its product with 10^8 as the
\* decimal context computes it.
Literal == ParseNumber(args.amount[1])

Product == DecMulPow10(Literal, HYPE_DECIMALS)

\* C6 as stated: whenever hype_to_wei returns, it returns round(Decimal(d) * 10^8).
C6_RoundsToNearest ==
    (pc = "converted" /\ amount # None) => amount[1] = DecRound(Product)

\* C6 as amended: hype_to_wei returns round(Decimal(d) * 10^8) for every d with at
\* most 8 digits after the point (exactly so when d has at most 28 significant
\* digits); for longer d it returns that product cut toward zero, which is the
\* rounded value or one less.
C6_RoundsUpToEightDecimals ==
    (pc = "converted" /\ amount # None) =>
      /\ FracDigits(Literal) <= HYPE_DECIMALS => amount[1] = DecRound(Product)
      /\ (FracDigits(Literal) <= HYPE_DECIMALS /\ Len(Literal.digs) <= DecimalPrec) =>
           amount[1] = DecRound(ExactMulPow10(Literal, HYPE_DECIMALS))
      /\ \/ amount[1] = DecRound(Product)
         \/ IntOf(FALSE, Incr(amount[1].digs)) = DecRound(Product)

\* 1.000000006 is accepted and gives 100000000, where rounding gives 100000001.
C6_Witness ==
    /\ pc = "converted"
    /\ script = "hype_cli"
    /\ args.amount = Some(<<"1", ".", "0", "0", "0", "0", "0", "0", "0", "0", "6">>)
    /\ amount = Some(IntOf(FALSE, <<1, 0, 0, 0, 0, 0, 0, 0, 0>>))
    /\ amount[1] # DecRound(Product)

\* C7: for every finite decimal literal d, hype_to_wei computes the integer part
\* (toward zero) of the number d * 10^8, raises the non-positive-amount error exactly
\* when that integer is <= 0, and otherwise returns that integer.
C7_TruncatesExactly ==
    (pc = "converted" /\ Literal.kind = "num") =>
      LET t == DecToInt(ExactMulPow10(Literal, HYPE_DECIMALS))
      IN  IF IntNonPositive(t)
          THEN amount = None /\ error = "NonPositiveAmount"
          ELSE amount = Some(t) /\ error = ""

\* C8: writing .env twice with the same key and the same amount leaves, after the
\* second write, the file the first write left.
C8_IdempotentUpsert ==
    \A i \in 1..(Len(envLog) - 1) :
       (envLog[i].key = envLog[i + 1].key /\ envLog[i].amount = envLog[i + 1].amount)
          => envLog[i + 1].after = envLog[i].after

Recognized(line) == StartsWith(line, PK_PREFIX) \/ StartsWith(line, AMOUNT_PREFIX)

\* A line without the newline that ends it.
Body(line) ==
    IF Len(line) > 0 /\ line[Len(line)] = "\n" THEN SubSeq(line, 1, Len(line) - 1)
    ELSE line

RECURSIVE UnrelatedBodies(_)
UnrelatedBodies(lines) ==
    IF Len(lines) = 0 THEN << >>
    ELSE IF Recognized(Head(lines)) THEN UnrelatedBodies(Tail(lines))
    ELSE << Body(Head(lines)) >> \o UnrelatedBodies(Tail(lines))

LinesOf(file) == IF file = None THEN << >> ELSE readlines(file[1])

\* C9: after two writes of .env, whatever it held before, there is exactly one line
\* for each recognized key, it holds the value written last, and the lines that do
\* not start with a recognized key are those of the original file, in their order.
C9_OneLinePerKey ==
    Len(envLog) >= 2 =>
      LET lines == LinesOf(envLog[2].after)
          pk    == {i \in 1..Len(lines) : StartsWith(lines[i], PK_PREFIX)}
          amt   == {i \in 1..Len(lines) : StartsWith(lines[i], AMOUNT_PREFIX)}
      IN  /\ Cardinality(pk) = 1
          /\ Cardinality(amt) = 1
          /\ \A i \in pk : lines[i] = PK_PREFIX \o KeyHex(envLog[2].key) \o NL
          /\ \A i \in amt : lines[i] = AMOUNT_PREFIX \o envLog[2].amount \o NL
          /\ UnrelatedBodies(lines) = UnrelatedBodies(LinesOf(envLog[1].before))

IsHexAddress(a) ==
    /\ StartsWith(a, Prefix0x)
    /\ Len(a) = 42
    /\ \A i \in 3..Len(a) : a[i] \in HexChars

\* C10: an address reaches a submit call only if it is 0x followed by exactly 40
\* hexadecimal characters, in every entry point that takes a target address.
C10_OnlyHexAddressSubmitted ==
    \A i \in 1..Len(calls) :
       IsSubmit(calls[i]) => IsHexAddress(calls[i].action[1].address)


\* The missing-field errors of the required fields that no source gives.
MissingFields ==
    (IF args.private_key = None /\ environ.PRIVATE_KEY = None
        /\ load_local_config(cfg).private_key = None
     THEN {"MissingPrivateKey"} ELSE {})
    \cup (IF args.address = None /\ environ.VAULT_ADDRESS = None
             /\ load_local_config(cfg).vault_address = None
          THEN {"MissingVaultAddress"} ELSE {})
    \cup (IF args.amount = None /\ environ.WITHDRAW_AMOUNT_USD = None
             /\ load_local_config(cfg).default_vault_withdraw_usd = None
          THEN {"MissingAmount"} ELSE {})

\* The missing-field errors of the required fields whose first present source holds
\* nothing: the fields no source gives, and those given as an empty string.
EmptyFields ==
    (IF Falsy(Preferred(args.private_key, environ.PRIVATE_KEY,
                        load_local_config(cfg).private_key))
     THEN {"MissingPrivateKey"} ELSE {})
    \cup (IF Falsy(Preferred(args.address, environ.VAULT_ADDRESS,
                             load_local_config(cfg).vault_address))
          THEN {"MissingVaultAddress"} ELSE {})

\* C11: in vault_withdraw.py, when a required field (private key, vault address,
\* amount) is given by no source, resolution never gets past that field and ends in
\* the missing-field error of a field that is missing (or given empty), whatever the
\* other fields hold.
C11_MissingFieldNamed ==
    (script = "vault_withdraw" /\ MissingFields # {}) =>
      /\ pc \in {"start", "resolve_vault", "resolve_amount", "done"}
      /\ pc = "done" => error \in MissingFields \cup EmptyFields

\* The flags of vault_withdraw.py have been resolved.
FlagsReached ==
    /\ script = "vault_withdraw"
    /\ pc \in {"wallet", "sign", "post", "done"}
    /\ error \notin {"MissingPrivateKey", "MissingVaultAddress", "InvalidAddressFormat",
                    "ValueError", "MissingAmount", "NonPositiveAmount"}

\* What the documented order gives a flag: the explicit value when there is one, else
\* the environment's word when it is a true or a false word (trimmed, in any case),
\* else the config file's entry, else the built-in default.
Documented(explicit, env, entry, default) ==
    IF explicit # None THEN PyBool(explicit[1])
    ELSE IF env # None /\ Lower(Strip(env[1])) \in TrueWords THEN PyBool(TRUE)
    ELSE IF env # None /\ Lower(Strip(env[1])) \in FalseWords THEN PyBool(FALSE)
    ELSE IF entry # None THEN entry[1]
    ELSE PyBool(default)

\* C12: in vault_withdraw.py is_mainnet and is_deposit resolve, without failing, in the
\* order explicit flag > environment word > config entry > default (is_mainnet true,
\* is_deposit false), and the resolved value is always a boolean.
C12_FlagsResolveToBoolean ==
    /\ (script = "vault_withdraw" /\ pc = "resolve_flags") => ENABLED V_ResolveFlags
    /\ FlagsReached =>
         /\ flags.is_mainnet.type = "bool"
         /\ flags.is_deposit.type = "bool"
         /\ flags.is_mainnet =
              Documented(IF args.testnet THEN Some(FALSE) ELSE None, environ.IS_MAINNET,
                         load_local_config(cfg).is_mainnet, TRUE)
         /\ flags.is_deposit =
              Documented(IF args.deposit THEN Some(TRUE)
                         ELSE IF args.withdraw THEN Some(FALSE) ELSE None,
                         environ.IS_DEPOSIT,
                         load_local_config(cfg).vault_is_deposit_default, FALSE)

\* C13: in the menu of hype_cli.py no error of an operation ends the loop: an
\* operation never leaves the menu by an exception, and once the menu has started the
\* loop is left only by choice 5, with no error.
C13_MenuSurvivesErrors ==
    script = "hype_cli" =>
      /\ pc # "crashed"
      /\ (pc = "exit" /\ private_key # None) =>
           (args.choice = Some(<<"5">>) /\ error = "")

IsVaultTransfer(c) ==
    IsSubmit(c) /\ c.action # None /\ c.action[1].type = "vaultTransfer"

\* C14: every vaultTransfer that is submitted (vault_withdraw.py and hype_cli.py) is
\* submitted with the action and the nonce that were signed just before; the action
\* carries the validated vault address, the resolved direction and the usd amount of
\* the validated positive amount; and the signature was made for mainnet exactly when
\* the exchange client's endpoint is the mainnet URL.
C14_SubmittedIsSigned ==
    \A i \in 1..Len(calls) :
       IsVaultTransfer(calls[i]) =>
         /\ i > 1
         /\ calls[i - 1] = Call("sign", calls[i].action, calls[i].nonce, TRUE)
         /\ locals.signature # None
         /\ locals.signature[1].action = calls[i].action[1]
         /\ Some(locals.signature[1].nonce) = calls[i].nonce
         /\ target # None /\ calls[i].action[1].address = target[1]
         /\ StartsWith(target[1], Prefix0x) /\ Len(target[1]) = 42
         /\ calls[i].action[1].flag = flags.is_deposit
         /\ amount # None /\ amount[1].kind = "num" /\ ~FloatNonPositive(amount[1])
         /\ calls[i].action[1].amt = DecRound(ExactMulPow10(amount[1], 6))
         /\ locals.signature[1].is_mainnet.truthy
              <=> (locals.base_url = Some("MAINNET_API_URL"))

\* vault_withdraw.py has submitted a vaultTransfer on testnet.
C14_Witness ==
    /\ script = "vault_withdraw" /\ pc = "done"
    /\ Len(calls) = 2 /\ IsVaultTransfer(calls[2]) /\ calls[2].ok
    /\ locals.base_url = Some("TESTNET_API_URL")
    /\ ~locals.signature[1].is_mainnet.truthy

============================================================================
